---- MODULE Spec2Model ----
(***************************************************************************)
(* Model of Set<T> (src/set.cpp): an AVL-tree based ordered set with       *)
(* parent links, cached begin/end iterators and a bidirectional iterator.  *)
(* T is instantiated with small integers compared by <.                    *)
(*                                                                         *)
(* The heap is a function from allocated addresses to TNode records, so    *)
(* that links, parent back-references and node sharing are explicit.       *)
(***************************************************************************)
EXTENDS Integers, Sequences, FiniteSets, TLC

\* ---------------------------------------------------------------- bounds
\* Element values are 1..MaxKey.
MaxKey == 4
\* Values used by the two-set (copy / assignment) specification.
MaxCopyKey == 2
\* TNode(T) does not initialise `height`: a fresh node's height reads as any
\* value in -MaxGarbage..MaxGarbage.
MaxGarbage == 2

Keys == 1..MaxKey
CopyKeys == 1..MaxCopyKey
UninitHeights == (0 - MaxGarbage)..MaxGarbage
\* Addresses operator new can hand out: room for two full sets.
Addrs == 1..(MaxKey + MaxKey)
\* Values a client may query with, including ones below and above every key.
Queries == 0..(MaxKey + 1)
SetNames == {"a", "b"}

\* ------------------------------------------------------ program constants
NULL == 0
EMPTY_SET_SIZE == 0
IMBALANCE_TO_LEFT == 2
IMBALANCE_TO_RIGHT == -2
TILTED_LEFT == 1
TILTED_RIGHT == -1

VARIABLES
    heap,      \* allocated TNode objects: address -> [val, left, right, parent, height]
    sets,      \* the Set objects: name -> [alive, root_, size_, begin_iter_, end_iter_]
    contents,  \* history: name -> values inserted and not subsequently erased
    op,        \* the last call on a Set object: [name, set, arg, hit]; hit tells
               \* whether the value of an insert / erase was in the set before it
    it,        \* the client's iterator object (over set "a")
    iop,       \* the last call that made or used `it` ("none": no iterator in scope)
    ret,       \* the iterator returned by the last ++ / -- call
    got,       \* the value returned by the last operator* call (0: none)
    fatal      \* "none", or how the program aborted

vars == <<heap, sets, contents, op, it, iop, ret, got, fatal>>

Max(a, b) == IF a >= b THEN a ELSE b

Reverse(s) == [i \in 1..Len(s) |-> s[Len(s) + 1 - i]]

\* ------------------------------------------------------------------ TNode
\* explicit TNode(T value): links are nulled, height is left uninitialised (g).
TNode(value, g) ==
    [val |-> value, left |-> NULL, right |-> NULL, parent |-> NULL, height |-> g]

\* operator new: the lowest free address.
Alloc(h) == CHOOSE a \in Addrs \ DOMAIN h : \A b \in Addrs \ DOMAIN h : a <= b

\* new TNode(value) placed at address a.
New(h, a, value, g) == h @@ (a :> TNode(value, g))

\* delete node
Free(h, a) == [x \in DOMAIN h \ {a} |-> h[x]]

\* (child == nullptr ? 0 : child->height)
HeightOf(h, n) == IF n = NULL THEN 0 ELSE h[n].height

diff(h, n) == HeightOf(h, h[n].left) - HeightOf(h, h[n].right)

update_height(h, n) ==
    [h EXCEPT ![n].height =
        Max(HeightOf(h, h[n].left) + 1, HeightOf(h, h[n].right) + 1)]

\* right = new_right; if (new_right != nullptr) new_right->parent = this;
link_right(h, n, new_right) ==
    IF new_right # NULL
    THEN [h EXCEPT ![n].right = new_right, ![new_right].parent = n]
    ELSE [h EXCEPT ![n].right = new_right]

set_right(h, n, new_right) == update_height(link_right(h, n, new_right), n)

\* left = new_left; if (new_left != nullptr) new_left->parent = this;
link_left(h, n, new_left) ==
    IF new_left # NULL
    THEN [h EXCEPT ![n].left = new_left, ![new_left].parent = n]
    ELSE [h EXCEPT ![n].left = new_left]

set_left(h, n, new_left) == update_height(link_left(h, n, new_left), n)

\* ------------------------------------------------------------- rotations
\* Results are [heap, node, crash]; crash marks a read through a null pointer.
Res(h, n) == [heap |-> h, node |-> n, crash |-> FALSE]

Crash(h) == [heap |-> h, node |-> NULL, crash |-> TRUE]

\* new_root->parent = root_parent; return new_root;
reparent(h, new_root, root_parent) ==
    Res([h EXCEPT ![new_root].parent = root_parent], new_root)

increase_left_height(h, old_root) ==
    IF h[old_root].right = NULL THEN Res(h, old_root)
    ELSE reparent(set_left(set_right(h, old_root, h[h[old_root].right].left),
                           h[old_root].right, old_root),
                  h[old_root].right, h[old_root].parent)

increase_right_height(h, old_root) ==
    IF h[old_root].left = NULL THEN Res(h, old_root)
    ELSE reparent(set_right(set_left(h, old_root, h[h[old_root].left].right),
                            h[old_root].left, old_root),
                  h[old_root].left, h[old_root].parent)

\* n->set_right(r) / n->set_left(r) for the node r a rotation returned.
set_right_to(r, n) == set_right(r.heap, n, r.node)

set_left_to(r, n) == set_left(r.heap, n, r.node)

balance_node(h, old_root) ==
    IF old_root = NULL THEN Res(h, old_root)
    ELSE IF diff(h, old_root) = IMBALANCE_TO_RIGHT THEN
        IF h[old_root].right = NULL THEN Crash(h)      \* old_root->right->diff()
        ELSE IF diff(h, h[old_root].right) = TILTED_LEFT THEN
            increase_left_height(
                set_right_to(increase_right_height(h, h[old_root].right), old_root),
                old_root)
        ELSE increase_left_height(h, old_root)
    ELSE IF diff(h, old_root) = IMBALANCE_TO_LEFT THEN
        IF h[old_root].left = NULL THEN Crash(h)       \* old_root->left->diff()
        ELSE IF diff(h, h[old_root].left) = TILTED_RIGHT THEN
            increase_right_height(
                set_left_to(increase_left_height(h, h[old_root].left), old_root),
                old_root)
        ELSE increase_right_height(h, old_root)
    ELSE Res(h, old_root)

\* if (path[i]->left != nullptr) path[i]->set_left(balance_node(path[i]->left));
balance_left_child(r, n) ==
    IF r.crash \/ r.heap[n].left = NULL THEN r
    ELSE IF balance_node(r.heap, r.heap[n].left).crash THEN Crash(r.heap)
    ELSE Res(set_left_to(balance_node(r.heap, r.heap[n].left), n), n)

\* if (path[i]->right != nullptr) path[i]->set_right(balance_node(path[i]->right));
balance_right_child(r, n) ==
    IF r.crash \/ r.heap[n].right = NULL THEN r
    ELSE IF balance_node(r.heap, r.heap[n].right).crash THEN Crash(r.heap)
    ELSE Res(set_right_to(balance_node(r.heap, r.heap[n].right), n), n)

\* One iteration of balance_path's loop, for n = path[i].
balance_step(h, n) ==
    balance_right_child(balance_left_child(Res(update_height(h, n), n), n), n)

RECURSIVE balance_loop(_, _, _)
balance_loop(r, path, i) ==
    IF r.crash \/ i > Len(path) THEN r
    ELSE balance_loop(balance_step(r.heap, path[i]), path, i + 1)

\* root_ = balance_node(root_);
balance_root(r, root) == IF r.crash THEN r ELSE balance_node(r.heap, root)

\* path[1] here is path[0] of the code; the loop starts at the second entry.
\* Result: [heap, node (the new root_), crash].
balance_path(h, path, root) ==
    balance_root(balance_loop(Res(h, NULL), path, 2), root)

\* --------------------------------------------------------------- iterator
iterator(node, root) == [node_ |-> node, root_ |-> root]

\* iterator(): both fields null.
DefaultIterator == iterator(NULL, NULL)

RECURSIVE leftmost(_, _)
leftmost(h, n) == IF h[n].left # NULL THEN leftmost(h, h[n].left) ELSE n

RECURSIVE rightmost(_, _)
rightmost(h, n) == IF h[n].right # NULL THEN rightmost(h, h[n].right) ELSE n

\* while (node_ != nullptr && node_->right == prev) { prev = node_; node_ = node_->parent; }
RECURSIVE climb_from_right(_, _, _)
climb_from_right(h, node, prev) ==
    IF node # NULL /\ h[node].right = prev
    THEN climb_from_right(h, h[node].parent, node) ELSE node

RECURSIVE climb_from_left(_, _, _)
climb_from_left(h, node, prev) ==
    IF node # NULL /\ h[node].left = prev
    THEN climb_from_left(h, h[node].parent, node) ELSE node

\* Results of the four stepping operators: [it (the iterator object after the
\* call), ret (the iterator the call returns), fatal].
Step(c, r, f) == [it |-> c, ret |-> r, fatal |-> f]

\* if (node_ == nullptr) assert(0);  after the climb of operator--
checked(c, r) == Step(c, r, IF c.node_ = NULL THEN "assert_decrement" ELSE "none")

\* The successor position the ++ operators move to from an element.
next_position(h, c) ==
    IF h[c.node_].right # NULL
    THEN iterator(leftmost(h, h[c.node_].right), c.root_)
    ELSE iterator(climb_from_right(h, h[c.node_].parent, c.node_), c.root_)

\* iterator& operator++(): returns *this
pre_increment(h, c) ==
    IF c.node_ = NULL THEN Step(c, c, "none")
    ELSE Step(next_position(h, c), next_position(h, c), "none")

\* const iterator operator++(int): returns *this from the first two branches,
\* old_copy from the last
post_increment(h, c) ==
    IF c.node_ = NULL THEN Step(c, c, "none")
    ELSE IF h[c.node_].right # NULL
    THEN Step(next_position(h, c), next_position(h, c), "none")
    ELSE Step(next_position(h, c), c, "none")

\* iterator& operator--(): returns *this
pre_decrement(h, c) ==
    IF c.node_ = NULL THEN
        IF c.root_ = NULL THEN Step(c, c, "null_read")        \* root_->right
        ELSE Step(iterator(rightmost(h, c.root_), c.root_),
                  iterator(rightmost(h, c.root_), c.root_), "none")
    ELSE IF h[c.node_].left # NULL THEN
        Step(iterator(rightmost(h, h[c.node_].left), c.root_),
             iterator(rightmost(h, h[c.node_].left), c.root_), "none")
    ELSE checked(iterator(climb_from_left(h, h[c.node_].parent, c.node_), c.root_),
                 iterator(climb_from_left(h, h[c.node_].parent, c.node_), c.root_))

\* const iterator operator--(int): returns *this from the first two branches,
\* old_copy from the last
post_decrement(h, c) ==
    IF c.node_ = NULL THEN
        IF c.root_ = NULL THEN Step(c, c, "null_read")        \* root_->right
        ELSE Step(iterator(rightmost(h, c.root_), c.root_),
                  iterator(rightmost(h, c.root_), c.root_), "none")
    ELSE IF h[c.node_].left # NULL THEN
        Step(iterator(rightmost(h, h[c.node_].left), c.root_),
             iterator(rightmost(h, h[c.node_].left), c.root_), "none")
    ELSE checked(iterator(climb_from_left(h, h[c.node_].parent, c.node_), c.root_), c)

\* ------------------------------------------------------------ Set: queries
\* Set(): the state of a default-constructed set.  A set that is not alive
\* (not constructed yet, or destroyed) is kept in this shape with alive = FALSE.
EmptySet(isAlive) ==
    [alive |-> isAlive, root_ |-> NULL, size_ |-> EMPTY_SET_SIZE,
     begin_iter_ |-> DefaultIterator, end_iter_ |-> DefaultIterator]

size(st) == st.size_

empty(st) == st.size_ = EMPTY_SET_SIZE

begin(st) == st.begin_iter_

end(st) == st.end_iter_

RECURSIVE find_from(_, _, _, _)
find_from(h, st, node, elem) ==
    IF node = NULL THEN end(st)
    ELSE IF ~(h[node].val < elem) /\ ~(elem < h[node].val) THEN iterator(node, st.root_)
    ELSE IF elem < h[node].val THEN find_from(h, st, h[node].left, elem)
    ELSE find_from(h, st, h[node].right, elem)

find(h, st, elem) == find_from(h, st, st.root_, elem)

RECURSIVE lower_bound_from(_, _, _, _)
lower_bound_from(h, node, last_successful, elem) ==
    IF node = NULL THEN last_successful
    ELSE IF h[node].val < elem THEN lower_bound_from(h, h[node].right, last_successful, elem)
    ELSE lower_bound_from(h, h[node].left, node, elem)

\* Mutant of lower_bound: the descent for a missing value is left out.
lower_bound_exact(h, st, elem) == find(h, st, elem)

lower_bound(h, st, elem) ==
    IF find(h, st, elem) # end(st) THEN find(h, st, elem)
    ELSE iterator(lower_bound_from(h, st.root_, NULL, elem), st.root_)

are_equal_values(val_a, val_b) == ~(val_a < val_b) /\ ~(val_b < val_a)

set_boundary_iters(h, st) ==
    [st EXCEPT !.begin_iter_ =
                   iterator(IF st.root_ # NULL THEN leftmost(h, st.root_) ELSE NULL,
                            st.root_),
               !.end_iter_ = iterator(NULL, st.root_)]

\* ----------------------------------------------------------- Set: insert
\* Results of the mutating calls: [heap, set, fatal].
Out(h, st, f) == [heap |-> h, set |-> st, fatal |-> f]

\* The tail shared by insert and erase once size_ is new_size: b is the result
\* of balance_path, then set_boundary_iters().
rebalanced(b, st, new_size) ==
    IF b.crash THEN Out(b.heap, st, "null_read")
    ELSE Out(b.heap,
             set_boundary_iters(b.heap, [st EXCEPT !.size_ = new_size, !.root_ = b.node]),
             "none")

\* The descent of insert: every node visited, root first.
RECURSIVE insert_path(_, _, _)
insert_path(h, node, elem) ==
    IF node = NULL THEN <<>>
    ELSE <<node>> \o (IF elem < h[node].val THEN insert_path(h, h[node].left, elem)
                      ELSE insert_path(h, h[node].right, elem))

\* root_ = new TNode(elem); set_boundary_iters(); return;   (a: the new node)
insert_root(h, st, a) ==
    Out(h, set_boundary_iters(h, [st EXCEPT !.size_ = st.size_ + 1, !.root_ = a]), "none")

\* Mutant of insert_below: the new node is always attached as the left child.
insert_below_left(h, st, elem, a, path) ==
    rebalanced(balance_path(set_left(h, path[1], a), path, st.root_), st, st.size_ + 1)

\* path[0]->set_right / set_left (new TNode(elem)); balance_path; set_boundary_iters
insert_below(h, st, elem, a, path) ==
    rebalanced(balance_path(IF h[path[1]].val < elem THEN set_right(h, path[1], a)
                            ELSE set_left(h, path[1], a),
                            path, st.root_),
               st, st.size_ + 1)

\* Mutant of insert: the find(elem) != end_iter_ early return is left out.
insert_unchecked(h, st, elem, g) ==
    IF st.root_ = NULL THEN insert_root(New(h, Alloc(h), elem, g), st, Alloc(h))
    ELSE insert_below(New(h, Alloc(h), elem, g), st, elem, Alloc(h),
                      Reverse(insert_path(h, st.root_, elem)))

\* g: what the new node's uninitialised height reads as.
insert(h, st, elem, g) ==
    IF find(h, st, elem) # st.end_iter_ THEN Out(h, st, "none")
    ELSE IF st.root_ = NULL THEN insert_root(New(h, Alloc(h), elem, g), st, Alloc(h))
    ELSE insert_below(New(h, Alloc(h), elem, g), st, elem, Alloc(h),
                      Reverse(insert_path(h, st.root_, elem)))

\* ------------------------------------------------------------ Set: erase
RECURSIVE right_spine(_, _)
right_spine(h, node) ==
    IF node = NULL THEN <<>> ELSE <<node>> \o right_spine(h, h[node].right)

\* The descent of erase: [path (root first), x (the node holding elem, or NULL)].
RECURSIVE erase_path(_, _, _, _)
erase_path(h, node, elem, visited) ==
    IF node = NULL THEN [path |-> visited, x |-> NULL]
    ELSE IF are_equal_values(elem, h[node].val)
    THEN [path |-> visited \o <<node>> \o right_spine(h, h[node].left), x |-> node]
    ELSE erase_path(h, IF elem < h[node].val THEN h[node].left ELSE h[node].right,
                    elem, Append(visited, node))

\* Mutant of swap_values: erase forgets to move the predecessor's value into x.
swap_values_skipped(h, x, n) == h

\* if (path[0] != x) std::swap(x->val, path[0]->val);
swap_values(h, x, n) ==
    IF n # x THEN [h EXCEPT ![x].val = h[n].val, ![n].val = h[x].val] ELSE h

\* The root_->parent = nullptr of delete_TNode (r: the new root_).
unparent(h, r) == IF r # NULL THEN [h EXCEPT ![r].parent = NULL] ELSE h

\* Result: [heap, root] (delete_TNode assigns root_ when the node has no parent).
delete_TNode(h, root, node) ==
    IF h[node].parent = NULL THEN
        [heap |-> Free(unparent(h, IF h[node].left = NULL THEN h[node].right
                                   ELSE h[node].left), node),
         root |-> IF h[node].left = NULL THEN h[node].right ELSE h[node].left]
    ELSE IF h[h[node].parent].right = node THEN
        [heap |-> Free(IF h[node].left # NULL
                       THEN set_right(h, h[node].parent, h[node].left)
                       ELSE set_right(set_right(h, h[node].parent, h[node].left),
                                      h[node].parent, h[node].right), node),
         root |-> root]
    ELSE
        [heap |-> Free(IF h[node].left # NULL
                       THEN set_left(h, h[node].parent, h[node].left)
                       ELSE set_left(set_left(h, h[node].parent, h[node].left),
                                     h[node].parent, h[node].right), node),
         root |-> root]

\* balance_path(path); set_boundary_iters();   (d: the result of delete_TNode)
erase_balance(d, st, path) ==
    rebalanced(balance_path(d.heap, path, d.root), st, st.size_ - 1)

\* e: the result of the descent.
erase_found(h, st, e) ==
    IF e.x = NULL THEN Out(h, st, "assert_erase")
    ELSE erase_balance(delete_TNode(swap_values(h, e.x, e.path[Len(e.path)]),
                                    st.root_, e.path[Len(e.path)]),
                       st, Reverse(e.path))

erase(h, st, elem) ==
    IF find(h, st, elem) = st.end_iter_ THEN Out(h, st, "none")
    ELSE erase_found(h, st, erase_path(h, st.root_, elem, <<>>))

\* ------------------------------------------- Set: copy, assign, destroy
\* The nodes of the tree under `node`.
RECURSIVE NodesOf(_, _)
NodesOf(h, node) ==
    IF node = NULL THEN {}
    ELSE {node} \cup NodesOf(h, h[node].left) \cup NodesOf(h, h[node].right)

\* copy_all_nodes works on [heap, q]: q is the stack of <<source node, its
\* copy>> pairs, top last.  gs[n] is what the uninitialised height of the copy
\* of source node n reads as.
Top(r) == r.q[Len(r.q)]

Pop(r) == [heap |-> r.heap, q |-> SubSeq(r.q, 1, Len(r.q) - 1)]

\* p.second->set_left(new TNode(p.first->left->val)); q.push({p.first->left, p.second->left});
copy_left(r, p, a, gs) ==
    IF r.heap[p[1]].left = NULL THEN r
    ELSE [heap |-> set_left(New(r.heap, a, r.heap[r.heap[p[1]].left].val,
                                gs[r.heap[p[1]].left]), p[2], a),
          q |-> Append(r.q, <<r.heap[p[1]].left, a>>)]

\* p.second->set_right(new TNode(p.first->right->val)); q.push({p.first->right, p.second->right});
copy_right(r, p, a, gs) ==
    IF r.heap[p[1]].right = NULL THEN r
    ELSE [heap |-> set_right(New(r.heap, a, r.heap[r.heap[p[1]].right].val,
                                 gs[r.heap[p[1]].right]), p[2], a),
          q |-> Append(r.q, <<r.heap[p[1]].right, a>>)]

copy_children(r, p, gs) == copy_right(r, p, Alloc(r.heap), gs)

\* One iteration of the while (!q.empty()) loop, for the pair p just popped.
copy_step(r, p, gs) == copy_children(copy_left(r, p, Alloc(r.heap), gs), p, gs)

RECURSIVE copy_loop(_, _)
copy_loop(r, gs) ==
    IF r.q = <<>> THEN r.heap ELSE copy_loop(copy_step(Pop(r), Top(r), gs), gs)

\* Mutant of copy_all_nodes: a shallow copy, root_ = st.root_.
copy_all_nodes_shallow(h, src, gs) == [heap |-> h, root |-> src.root_]

\* Result: [heap, root] for the set being filled (whose root_ is null on entry).
copy_all_nodes(h, src, gs) ==
    IF src.root_ = NULL THEN [heap |-> h, root |-> NULL]
    ELSE [heap |-> copy_loop([heap |-> New(h, Alloc(h), h[src.root_].val, gs[src.root_]),
                              q |-> <<<<src.root_, Alloc(h)>>>>], gs),
          root |-> Alloc(h)]

\* Result: [heap, set].
delete_all_nodes(h, st) ==
    IF st.root_ = NULL THEN [heap |-> h, set |-> st]
    ELSE [heap |-> [x \in DOMAIN h \ NodesOf(h, st.root_) |-> h[x]],
          set |-> [st EXCEPT !.root_ = NULL, !.begin_iter_ = iterator(NULL, NULL),
                             !.end_iter_ = iterator(NULL, NULL), !.size_ = 0]]

\* Mutant of copied: the copy keeps its own size_ instead of taking st.size_.
copied_keeping_size(c, st, src) ==
    [heap |-> c.heap, set |-> set_boundary_iters(c.heap, [st EXCEPT !.root_ = c.root])]

\* size_ = st.size_; set_boundary_iters();   (c: the result of copy_all_nodes)
copied(c, st, src) ==
    [heap |-> c.heap,
     set |-> set_boundary_iters(c.heap, [st EXCEPT !.root_ = c.root, !.size_ = src.size_])]

\* Set(const Set& st) : Set()
copy_construct(h, src, gs) == copied(copy_all_nodes(h, src, gs), EmptySet(TRUE), src)

\* d: the result of delete_all_nodes.
assign_cleared(d, src, gs) == copied(copy_all_nodes(d.heap, src, gs), d.set, src)

\* Set& operator=(const Set& st)
assign(h, dst, src, gs) ==
    IF begin(src) = dst.begin_iter_ THEN [heap |-> h, set |-> dst]
    ELSE assign_cleared(delete_all_nodes(h, dst), src, gs)

\* ~Set()
destroy(h, st) == [heap |-> delete_all_nodes(h, st).heap, set |-> EmptySet(FALSE)]

\* ---------------------------------------------------------- state machine
Call(name, s, arg, hit) == [name |-> name, set |-> s, arg |-> arg, hit |-> hit]

\* Set<int> a;  (b is declared later, by copy construction)
Init ==
    /\ heap = [x \in {} |-> TNode(0, 0)]
    /\ sets = [s \in SetNames |-> EmptySet(s = "a")]
    /\ contents = [s \in SetNames |-> {}]
    /\ op = Call("Set", "a", 0, FALSE)
    /\ it = DefaultIterator
    /\ iop = "none"
    /\ ret = DefaultIterator
    /\ got = 0
    /\ fatal = "none"

\* The client uses an iterator only on the state of the set it was obtained
\* from: it mutates the sets while no iterator is in scope.
NoIterator == iop = "none"

IteratorVars == <<it, iop, ret, got>>

\* The call on set s returns r = [heap, set, fatal] and leaves s holding the
\* values c.  An aborted call: the process is gone, the data is left as it was.
Return(r, s, c) ==
    IF r.fatal # "none"
    THEN /\ fatal' = r.fatal
         /\ UNCHANGED <<heap, sets, contents>>
    ELSE /\ heap' = r.heap
         /\ sets' = [sets EXCEPT ![s] = r.set]
         /\ contents' = [contents EXCEPT ![s] = c]
         /\ fatal' = "none"

\* The heights a node created by the call may read as: none is created when
\* the value is already present.
FreshHeights(s, v) ==
    IF find(heap, sets[s], v) # sets[s].end_iter_ THEN {0} ELSE UninitHeights

Insert(s, v) ==
    /\ fatal = "none"
    /\ NoIterator
    /\ sets[s].alive
    /\ \E g \in FreshHeights(s, v) :
         Return(insert(heap, sets[s], v, g), s, contents[s] \cup {v})
    /\ op' = Call("insert", s, v, find(heap, sets[s], v) # end(sets[s]))
    /\ UNCHANGED IteratorVars

Erase(s, v) ==
    /\ fatal = "none"
    /\ NoIterator
    /\ sets[s].alive
    /\ Return(erase(heap, sets[s], v), s, contents[s] \ {v})
    /\ op' = Call("erase", s, v, find(heap, sets[s], v) # end(sets[s]))
    /\ UNCHANGED IteratorVars

\* The heights the copies of the source nodes ns may read as (one choice when
\* no node is copied).
CopyHeights(ns) == [ns -> UninitHeights]

\* Set b(a);
CopyConstruct(d, s) ==
    /\ fatal = "none"
    /\ NoIterator
    /\ ~sets[d].alive
    /\ sets[s].alive
    /\ \E gs \in CopyHeights(NodesOf(heap, sets[s].root_)) :
         Return(Out(copy_construct(heap, sets[s], gs).heap,
                    copy_construct(heap, sets[s], gs).set, "none"), d, contents[s])
    /\ op' = Call("copy", d, 0, FALSE)
    /\ UNCHANGED IteratorVars

\* d = s;
Assign(d, s) ==
    /\ fatal = "none"
    /\ NoIterator
    /\ sets[d].alive
    /\ sets[s].alive
    /\ \E gs \in CopyHeights(IF begin(sets[s]) = sets[d].begin_iter_
                             THEN {} ELSE NodesOf(heap, sets[s].root_)) :
         Return(Out(assign(heap, sets[d], sets[s], gs).heap,
                    assign(heap, sets[d], sets[s], gs).set, "none"), d, contents[s])
    /\ op' = Call("assign", d, 0, FALSE)
    /\ UNCHANGED IteratorVars

\* b goes out of scope.
Destroy(d) ==
    /\ fatal = "none"
    /\ NoIterator
    /\ sets[d].alive
    /\ Return(Out(destroy(heap, sets[d]).heap, destroy(heap, sets[d]).set, "none"), d, {})
    /\ op' = Call("destroy", d, 0, FALSE)
    /\ UNCHANGED IteratorVars

\* The client obtains an iterator of set "a".
Obtain(name, c) ==
    /\ fatal = "none"
    /\ NoIterator
    /\ it' = c
    /\ iop' = name
    /\ UNCHANGED <<heap, sets, contents, op, ret, got, fatal>>

Begin == Obtain("begin", begin(sets["a"]))

End == Obtain("end", end(sets["a"]))

Find(v) == Obtain("find", find(heap, sets["a"], v))

LowerBound(v) == Obtain("lower_bound", lower_bound(heap, sets["a"], v))

\* The client steps its iterator with one of the four stepping operators.
Move(name, r) ==
    /\ fatal = "none"
    /\ ~NoIterator
    /\ it' = r.it
    /\ iop' = name
    /\ ret' = r.ret
    /\ got' = 0
    /\ fatal' = r.fatal
    /\ UNCHANGED <<heap, sets, contents, op>>

PreIncrement == Move("++it", pre_increment(heap, it))

PreDecrement == Move("--it", pre_decrement(heap, it))

PostIncrement == Move("it++", post_increment(heap, it))

PostDecrement == Move("it--", post_decrement(heap, it))

\* const T& operator*()
Dereference ==
    /\ fatal = "none"
    /\ ~NoIterator
    /\ IF it.node_ = NULL
       THEN fatal' = "assert_deref" /\ got' = 0
       ELSE fatal' = "none" /\ got' = heap[it.node_].val
    /\ iop' = "*it"
    /\ ret' = DefaultIterator
    /\ UNCHANGED <<heap, sets, contents, op, it>>

\* The iterator goes out of scope.
Release ==
    /\ fatal = "none"
    /\ ~NoIterator
    /\ it' = DefaultIterator
    /\ iop' = "none"
    /\ ret' = DefaultIterator
    /\ got' = 0
    /\ UNCHANGED <<heap, sets, contents, op, fatal>>

\* One set and one iterator over it.
Next ==
    \/ Begin
    \/ End
    \/ \E v \in Queries : Find(v)
    \/ \E v \in Queries : LowerBound(v)
    \/ PreIncrement
    \/ PreDecrement
    \/ PostIncrement
    \/ PostDecrement
    \/ Dereference
    \/ Release
    \/ \E v \in Keys : Insert("a", v)
    \/ \E v \in Keys : Erase("a", v)

Spec == Init /\ [][Next]_vars

\* Two sets: a, and b made from a by copy construction; each is mutated,
\* assigned from the other or from itself, and b may be destroyed.
NextCopy ==
    \/ \E s \in SetNames, v \in CopyKeys : Insert(s, v)
    \/ \E s \in SetNames, v \in CopyKeys : Erase(s, v)
    \/ CopyConstruct("b", "a")
    \/ \E d \in SetNames, s \in SetNames : Assign(d, s)
    \/ Destroy("b")

SpecCopy == Init /\ [][NextCopy]_vars

\* ------------------------------------------------- what the claims speak of
\* The actual height of the subtree under n: longest path to a leaf, absent = 0.
RECURSIVE RealHeight(_, _)
RealHeight(h, n) ==
    IF n = NULL THEN 0
    ELSE 1 + Max(RealHeight(h, h[n].left), RealHeight(h, h[n].right))

Least(S) == CHOOSE x \in S : \A y \in S : x <= y

\* The values of S in strictly increasing order.
RECURSIVE Ascending(_)
Ascending(S) == IF S = {} THEN <<>> ELSE <<Least(S)>> \o Ascending(S \ {Least(S)})

\* The values visited by ++c from c until c == e.  A walk that reaches a null
\* node that is not e, or that outlasts n steps, never arrives: it ends in 0,
\* which is no element.
RECURSIVE Walk(_, _, _, _)
Walk(h, c, e, n) ==
    IF c = e THEN <<>>
    ELSE IF n = 0 \/ c.node_ = NULL THEN <<0>>
    ELSE <<h[c.node_].val>> \o Walk(h, pre_increment(h, c).it, e, n - 1)

\* for (it = s.begin(); it != s.end(); ++it) visit(*it)
Visit(s) == Walk(heap, begin(sets[s]), end(sets[s]), Cardinality(DOMAIN heap) + 1)

Tree(s) == NodesOf(heap, sets[s].root_)

\* ------------------------------------------------------------------ claims

\* C1: after every insert and erase from the empty set, every node's left and
\* right subtrees differ in actual height by at most 1.
C1_AvlBalanced ==
    \A n \in Tree("a") :
        RealHeight(heap, heap[n].left) - RealHeight(heap, heap[n].right) \in {-1, 0, 1}

\* C2: after any sequence of insert and erase calls, advancing from begin()
\* to end() visits, in strictly increasing order, exactly the values inserted
\* and not erased since.
C2_TraversalIsContents == Visit("a") = Ascending(contents["a"])

\* C2 witness: an erase that removed a value left three values, which the
\* traversal visits, under a root that has both children.
C2_Witness ==
    /\ op.name = "erase" /\ op.hit /\ fatal = "none"
    /\ Cardinality(contents["a"]) = 3
    /\ Len(Visit("a")) = 3
    /\ heap[sets["a"].root_].left # NULL
    /\ heap[sets["a"].root_].right # NULL

\* C3: in every state reached by construction, insert, erase, copy
\* construction and assignment, size() is the number of elements the traversal
\* visits, which is the number of nodes; empty() holds exactly when it is 0.
C3_SizeIsCount ==
    \A s \in SetNames :
        /\ size(sets[s]) = Len(Visit(s))
        /\ size(sets[s]) = Cardinality(Tree(s))
        /\ empty(sets[s]) <=> (Len(Visit(s)) = 0)

\* C3 witness: b was assigned a two-element set and reports size 2.
C3_Witness ==
    /\ op.name = "assign" /\ op.set = "b"
    /\ size(sets["b"]) = 2
    /\ Len(Visit("b")) = 2
    /\ ~empty(sets["b"])

\* The stored values not less than v.
NotLess(v) == {x \in contents["a"] : ~(x < v)}

\* C4: lower_bound(v) is at the smallest stored element not less than v, and
\* is end() when every stored element is less than v.
C4_LowerBound ==
    \A v \in Queries :
        IF NotLess(v) = {} THEN lower_bound(heap, sets["a"], v) = end(sets["a"])
        ELSE /\ lower_bound(heap, sets["a"], v).node_ # NULL
             /\ lower_bound(heap, sets["a"], v).root_ = sets["a"].root_
             /\ heap[lower_bound(heap, sets["a"], v).node_].val = Least(NotLess(v))

\* C4 witness: lower_bound was called with a value that is not stored and that
\* lies between two stored values, and returned the larger one's position.
C4_Witness ==
    /\ iop = "lower_bound"
    /\ \E v \in Queries :
         /\ v \notin contents["a"]
         /\ \E x \in contents["a"] : x < v
         /\ it = lower_bound(heap, sets["a"], v)
         /\ it.node_ # NULL
         /\ heap[it.node_].val > v

\* C5: right after insert(v), find(v) is not end() and is at a value
\* equivalent to v; right after erase(v), find(v) is end().
C5_FindAfter ==
    /\ (op.name = "insert" /\ fatal = "none")
         => /\ find(heap, sets[op.set], op.arg) # end(sets[op.set])
            /\ find(heap, sets[op.set], op.arg).node_ # NULL
            /\ are_equal_values(heap[find(heap, sets[op.set], op.arg).node_].val, op.arg)
    /\ (op.name = "erase" /\ fatal = "none")
         => find(heap, sets[op.set], op.arg) = end(sets[op.set])

\* C5 witness: erase(v) removed a stored v from a set that keeps other values,
\* and find(v) now misses.
C5_Witness ==
    /\ op.name = "erase" /\ op.hit /\ fatal = "none"
    /\ Cardinality(contents["a"]) >= 2
    /\ find(heap, sets["a"], op.arg) = end(sets["a"])

\* C6: insert(v) with v present and erase(v) with v absent change nothing: no
\* node's value, links or height, nor root_, size_ or the cached iterators.
C6_NoOp ==
    [][((op'.name = "insert" /\ op'.arg \in contents[op'.set])
          \/ (op'.name = "erase" /\ op'.arg \notin contents[op'.set]))
        => (heap' = heap /\ sets' = sets)]_vars

\* C6 witness: insert(v) was called on a set of three values that held v.
C6_Witness ==
    /\ op.name = "insert" /\ op.hit
    /\ Cardinality(contents["a"]) = 3

\* The other set.
Other(s) == IF s = "a" THEN "b" ELSE "a"

\* The nodes of set s are where and what they were.
SameTree(s) ==
    /\ sets'[s] = sets[s]
    /\ \A n \in Tree(s) : n \in DOMAIN heap' /\ heap'[n] = heap[n]

\* C7: a set made by copy construction or assignment holds the elements of
\* its source and shares no node with it; a later insert or erase on either of
\* the two leaves the other one's elements, size and tree as they were.
C7_CopyIndependent ==
    /\ [](\A s \in SetNames : Visit(s) = Ascending(contents[s]))
    /\ [](Tree("a") \cap Tree("b") = {})
    /\ [][(op'.name \in {"insert", "erase"} /\ sets["a"].alive /\ sets["b"].alive)
            => SameTree(Other(op'.set))]_vars

\* C7 witness: both sets hold nodes and the last call changed one of them by
\* an insert or an erase.
C7_Witness ==
    /\ op.name \in {"insert", "erase"}
    /\ op.hit = (op.name = "erase")
    /\ sets["b"].alive
    /\ Tree("a") # {}
    /\ Tree("b") # {}
    /\ contents["a"] # contents["b"]

\* C8: the only fatal conditions are dereferencing a null-target iterator and
\* erase not locating a value find reported; no other call aborts or reads
\* through a null node.
C8_OnlyTwoFatal == fatal \in {"none", "assert_deref", "assert_erase"}

\* C9: every node's stored height is 1 + the larger stored height of its
\* children, an absent child counting 0 (so every leaf stores 1).
C9_StoredHeights ==
    \A n \in Tree("a") :
        heap[n].height =
            1 + Max(HeightOf(heap, heap[n].left), HeightOf(heap, heap[n].right))

\* C10: from an element, it++ leaves the iterator where ++it would and
\* returns the position held before the call; it-- mirrors this for --it.
C10_PostfixReturnsOld ==
    [][/\ (iop' = "it++" /\ it.node_ # NULL /\ fatal' = "none")
          => (it' = pre_increment(heap, it).it /\ ret' = it)
       /\ (iop' = "it--" /\ it.node_ # NULL /\ fatal' = "none")
          => (it' = pre_decrement(heap, it).it /\ ret' = it)]_vars

====
